---- MODULE Spec2Model ----
(***************************************************************************)
(* ConditionBlock.run (backend/blocks/branching.py): operand extraction    *)
(* by key / index, comparison by one of six operators with Python's native *)
(* equality and ordering, and selection of the emitted output.             *)
(*                                                                         *)
(* Values are JSON-like Python values, tagged by their dynamic type.       *)
(* A str is the sequence of its code points, a dict a function from str    *)
(* payloads to values, a list a sequence of values.                        *)
(***************************************************************************)
EXTENDS Integers, Sequences, FiniteSets, TLC

VARIABLES input_data, pc, value1, value2, result, emitted, exc

vars == <<input_data, pc, value1, value2, result, emitted, exc>>

-----------------------------------------------------------------------------
(* Bounds of the explored inputs *)

MaxLen == 2
MaxNum == 1
MaxStrLen == 1

-----------------------------------------------------------------------------
(* Python values *)

None == [t |-> "null"]
PyBool(b) == [t |-> "bool", b |-> b]
PyInt(n) == [t |-> "num", n |-> n]
PyStr(s) == [t |-> "str", s |-> s]
PyDict(d) == [t |-> "dict", d |-> d]
PyList(l) == [t |-> "list", l |-> l]

isinstance(v, ty) == v.t = ty

A == <<97>>
B == <<98>>

EQUAL == "=="
NOT_EQUAL == "!="
GREATER_THAN == ">"
LESS_THAN == "<"
GREATER_THAN_OR_EQUAL == ">="
LESS_THAN_OR_EQUAL == "<="

ComparisonOperator ==
    {EQUAL, NOT_EQUAL, GREATER_THAN, LESS_THAN, GREATER_THAN_OR_EQUAL, LESS_THAN_OR_EQUAL}

OrderingOperator ==
    {GREATER_THAN, LESS_THAN, GREATER_THAN_OR_EQUAL, LESS_THAN_OR_EQUAL}

Min(S) == CHOOSE m \in S : \A o \in S : m <= o

(* bool is a subclass of int: False is 0 and True is 1 *)
IsNumber(v) == v.t \in {"bool", "num"}
AsInt(v) == IF v.t = "bool" THEN (IF v.b THEN 1 ELSE 0) ELSE v.n

IntCompare(op, x, y) ==
    CASE op = EQUAL -> x = y
      [] op = NOT_EQUAL -> x # y
      [] op = GREATER_THAN -> x > y
      [] op = LESS_THAN -> x < y
      [] op = GREATER_THAN_OR_EQUAL -> x >= y
      [] op = LESS_THAN_OR_EQUAL -> x <= y

(* str ordering: by code point at the first difference, a proper prefix first *)
StrLess(s, u) ==
    \/ \E i \in 1..Min({Len(s), Len(u)}) :
          /\ \A j \in 1..(i - 1) : s[j] = u[j]
          /\ s[i] < u[i]
    \/ /\ Len(s) < Len(u)
       /\ \A j \in 1..Len(s) : s[j] = u[j]

StrCompare(op, s, u) ==
    CASE op = EQUAL -> s = u
      [] op = NOT_EQUAL -> s # u
      [] op = GREATER_THAN -> StrLess(u, s)
      [] op = LESS_THAN -> StrLess(s, u)
      [] op = GREATER_THAN_OR_EQUAL -> ~StrLess(s, u)
      [] op = LESS_THAN_OR_EQUAL -> ~StrLess(u, s)

(* a == b *)
RECURSIVE PyEq(_, _)
PyEq(a, b) ==
    IF IsNumber(a) /\ IsNumber(b) THEN AsInt(a) = AsInt(b)
    ELSE IF a.t # b.t THEN FALSE
    ELSE CASE a.t = "null" -> TRUE
           [] a.t = "str" -> a.s = b.s
           [] a.t = "dict" ->
                /\ DOMAIN a.d = DOMAIN b.d
                /\ \A k \in DOMAIN a.d : PyEq(a.d[k], b.d[k])
           [] a.t = "list" ->
                /\ Len(a.l) = Len(b.l)
                /\ \A i \in 1..Len(a.l) : PyEq(a.l[i], b.l[i])

Returned(v) == [raised |-> FALSE, value |-> v]
Raised == [raised |-> TRUE, value |-> FALSE]

(* variant: bool left out of the ordered number types, lists unordered *)
PyOrderNoBool(op, a, b) ==
    IF a.t = "num" /\ b.t = "num" THEN Returned(IntCompare(op, a.n, b.n))
    ELSE IF a.t = "str" /\ b.t = "str" THEN Returned(StrCompare(op, a.s, b.s))
    ELSE Raised

(* a > b, a < b, a >= b, a <= b: TypeError unless the types are ordered *)
RECURSIVE PyOrder(_, _, _)
PyOrder(op, a, b) ==
    IF IsNumber(a) /\ IsNumber(b) THEN Returned(IntCompare(op, AsInt(a), AsInt(b)))
    ELSE IF a.t = "str" /\ b.t = "str" THEN Returned(StrCompare(op, a.s, b.s))
    ELSE IF a.t = "list" /\ b.t = "list" THEN
        LET differ == {i \in 1..Min({Len(a.l), Len(b.l)}) : ~PyEq(a.l[i], b.l[i])}
        IN  IF differ = {} THEN Returned(IntCompare(op, Len(a.l), Len(b.l)))
            ELSE PyOrder(op, a.l[Min(differ)], b.l[Min(differ)])
    ELSE Raised

(* comparison_funcs[operator](a, b) *)
comparison_funcs(op, a, b) ==
    CASE op = EQUAL -> Returned(PyEq(a, b))
      [] op = NOT_EQUAL -> Returned(~PyEq(a, b))
      [] OTHER -> PyOrder(op, a, b)

-----------------------------------------------------------------------------
(* get_value(obj, key, index); key is None or a str, index None or an int. *)
(* obj[0] of an empty list raises IndexError.                              *)

(* variant: a missing key gives back the dict itself *)
dict_get_or_self(obj, key) ==
    IF key.t = "str" /\ key.s \in DOMAIN obj.d THEN obj.d[key.s] ELSE obj

(* obj.get(key) *)
dict_get(obj, key) ==
    IF key.t = "str" /\ key.s \in DOMAIN obj.d THEN obj.d[key.s] ELSE None

get_value(obj, key, index) ==
    IF isinstance(obj, "dict") THEN Returned(dict_get(obj, key))
    ELSE IF isinstance(obj, "list") THEN
        IF index # None /\ 0 <= index.n /\ index.n < Len(obj.l)
        THEN Returned(obj.l[index.n + 1])
        ELSE IF key # None THEN
            IF Len(obj.l) = 0 THEN [raised |-> TRUE, value |-> None]
            ELSE IF isinstance(obj.l[1], "dict")
                 THEN Returned(dict_get(obj.l[1], key))
                 ELSE Returned(None)
        ELSE Returned(obj)
    ELSE Returned(obj)

(* lines 106-111: the index is passed on only for a list *)
Extract(key, index) ==
    IF isinstance(input_data.input_object, "list")
    THEN get_value(input_data.input_object, key, index)
    ELSE get_value(input_data.input_object, key, None)

Extract1 == Extract(input_data.value1_key, input_data.value1_index)
Extract2 == Extract(input_data.value2_key, input_data.value2_index)

(* variant: an override tested by truth value instead of `is not None` *)
Truthy(v) ==
    CASE v.t = "null" -> FALSE
      [] v.t = "bool" -> v.b
      [] v.t = "num" -> v.n # 0
      [] v.t = "str" -> Len(v.s) > 0
      [] v.t = "dict" -> DOMAIN v.d # {}
      [] v.t = "list" -> Len(v.l) > 0

SelectOutputTruthy(res) ==
    IF res
    THEN IF input_data.passthrough THEN input_data.input_object
         ELSE IF Truthy(input_data.yes_value) THEN input_data.yes_value ELSE value1
    ELSE IF input_data.passthrough THEN input_data.input_object
         ELSE IF Truthy(input_data.no_value) THEN input_data.no_value ELSE value1

(* lines 126-129 *)
SelectOutput(res) ==
    IF res
    THEN IF input_data.passthrough THEN input_data.input_object
         ELSE IF input_data.yes_value # None THEN input_data.yes_value ELSE value1
    ELSE IF input_data.passthrough THEN input_data.input_object
         ELSE IF input_data.no_value # None THEN input_data.no_value ELSE value1

-----------------------------------------------------------------------------
(* Requests *)

RECURSIVE SeqsUpTo(_, _)
SeqsUpTo(S, n) ==
    IF n = 0 THEN {<<>>}
    ELSE LET shorter == SeqsUpTo(S, n - 1)
         IN  shorter \cup {Append(q, e) : q \in {r \in shorter : Len(r) = n - 1}, e \in S}

Alphabet == {97, 98}
Keys == {A, B}

Strs == {PyStr(s) : s \in SeqsUpTo(Alphabet, MaxStrLen)}
Nums == {PyInt(n) : n \in 0..MaxNum}
Bools == {PyBool(b) : b \in BOOLEAN}
Scalars == {None} \cup Bools \cup Nums \cup Strs

InnerLists ==
    {PyList(<<>>), PyList(<<PyInt(0)>>), PyList(<<PyInt(1)>>), PyList(<<PyStr(A)>>),
     PyList(<<PyInt(0), PyInt(1)>>), PyList(<<PyInt(0), PyStr(A)>>)}
InnerDicts == {PyDict(A :> PyInt(1)), PyDict(A :> PyInt(0) @@ B :> PyStr(A))}

(* dicts whose values take every shape *)
Fields == Scalars \cup InnerLists \cup InnerDicts
Dicts == {PyDict(<<>>)} \cup {PyDict(A :> v) : v \in Fields}
            \cup {PyDict(A :> v @@ B :> w) : v \in Fields, w \in Fields}

(* lists of scalars, dicts and lists *)
Elements == {PyInt(1), PyStr(B), PyList(<<PyInt(0)>>)} \cup InnerDicts
Lists == {PyList(l) : l \in SeqsUpTo(Elements, MaxLen)}

KeyOpts == {None} \cup {PyStr(k) : k \in Keys}
IndexOpts == {None} \cup {PyInt(i) : i \in (-1)..MaxLen}
Overrides == {None, PyInt(0), PyStr(<<>>), PyBool(FALSE), PyStr(A)}

Request(obj, k1, i1, k2, i2, op, yes, no, pass) ==
    [input_object |-> obj, value1_key |-> k1, value1_index |-> i1,
     value2_key |-> k2, value2_index |-> i2, operator |-> op,
     yes_value |-> yes, no_value |-> no, passthrough |-> pass]

(* every addressing of a list *)
ListRequest ==
    \E obj \in Lists, k1 \in KeyOpts, i1 \in IndexOpts,
       k2 \in KeyOpts, i2 \in IndexOpts, op \in ComparisonOperator :
        input_data = Request(obj, k1, i1, k2, i2, op, None, None, FALSE)

(* every pair of operand shapes, out of a dict *)
DictRequest ==
    \E obj \in Dicts, k1 \in KeyOpts, i1 \in {None, PyInt(0)},
       k2 \in KeyOpts, op \in ComparisonOperator, pass \in BOOLEAN :
        input_data = Request(obj, k1, i1, k2, None, op, None, None, pass)

(* scalars *)
ScalarRequest ==
    \E obj \in Scalars, k1 \in KeyOpts, i1 \in {None, PyInt(0)},
       k2 \in KeyOpts, op \in ComparisonOperator, yes \in Overrides :
        input_data = Request(obj, k1, i1, k2, None, op, yes, None, FALSE)

(* every override, on a few inputs of each shape *)
OverrideInputs ==
    {PyInt(1), PyDict(A :> PyInt(1) @@ B :> PyInt(0)), PyDict(A :> PyStr(A)),
     PyList(<<PyDict(A :> PyInt(1)), PyDict(A :> PyInt(0))>>), PyList(<<>>)}

OverrideRequest ==
    \E obj \in OverrideInputs, k1 \in {None, PyStr(A)}, i1 \in {None, PyInt(0)},
       k2 \in {None, PyStr(B)}, i2 \in {None, PyInt(1)}, op \in ComparisonOperator,
       yes \in Overrides, no \in Overrides, pass \in BOOLEAN :
        input_data = Request(obj, k1, i1, k2, i2, op, yes, no, pass)

-----------------------------------------------------------------------------
(* run, one step per statement group between two yields *)

Init ==
    /\ ListRequest \/ DictRequest \/ ScalarRequest \/ OverrideRequest
    /\ pc = "start"
    /\ value1 = None
    /\ value2 = None
    /\ result = None
    /\ emitted = <<>>
    /\ exc = "none"

(* lines 106-111, outside the try block *)
GetValues ==
    /\ pc = "start"
    /\ ~Extract1.raised
    /\ ~Extract2.raised
    /\ value1' = Extract1.value
    /\ value2' = Extract2.value
    /\ pc' = "try"
    /\ UNCHANGED <<input_data, result, emitted, exc>>

(* an IndexError of get_value leaves run *)
GetValuesRaise ==
    /\ pc = "start"
    /\ Extract1.raised \/ Extract2.raised
    /\ exc' = "IndexError"
    /\ pc' = "done"
    /\ UNCHANGED <<input_data, value1, value2, result, emitted>>

(* lines 123-124 *)
YieldResult ==
    /\ pc = "try"
    /\ LET r == comparison_funcs(input_data.operator, value1, value2)
       IN  /\ ~r.raised
           /\ result' = PyBool(r.value)
           /\ emitted' = Append(emitted, <<"result", PyBool(r.value)>>)
    /\ pc' = "output"
    /\ UNCHANGED <<input_data, value1, value2, exc>>

(* line 123 raises: control moves to the except clause *)
CompareRaise ==
    /\ pc = "try"
    /\ comparison_funcs(input_data.operator, value1, value2).raised
    /\ pc' = "except"
    /\ UNCHANGED <<input_data, value1, value2, result, emitted, exc>>

(* lines 126-131 *)
YieldOutput ==
    /\ pc = "output"
    /\ emitted' = Append(emitted, <<"output", SelectOutput(result.b)>>)
    /\ pc' = "done"
    /\ UNCHANGED <<input_data, value1, value2, result, exc>>

(* line 134 *)
ExceptYieldResult ==
    /\ pc = "except"
    /\ emitted' = Append(emitted, <<"result", None>>)
    /\ pc' = "except_output"
    /\ UNCHANGED <<input_data, value1, value2, result, exc>>

(* variant: the except clause still honours passthrough *)
ExceptYieldOutputPassthrough ==
    /\ pc = "except_output"
    /\ emitted' = Append(emitted, <<"output", IF input_data.passthrough
                                               THEN input_data.input_object
                                               ELSE None>>)
    /\ pc' = "done"
    /\ UNCHANGED <<input_data, value1, value2, result, exc>>

(* line 135 *)
ExceptYieldOutput ==
    /\ pc = "except_output"
    /\ emitted' = Append(emitted, <<"output", None>>)
    /\ pc' = "done"
    /\ UNCHANGED <<input_data, value1, value2, result, exc>>

Next ==
    \/ GetValues
    \/ GetValuesRaise
    \/ YieldResult
    \/ CompareRaise
    \/ YieldOutput
    \/ ExceptYieldResult
    \/ ExceptYieldOutput

Spec == Init /\ [][Next]_vars

-----------------------------------------------------------------------------
(* What an invocation has emitted *)

Finished == pc = "done"
Succeeded == Finished /\ exc = "none" /\ emitted[1][2].t = "bool"
Resolved == pc # "start" /\ exc = "none"

InRange(index, obj) == index # None /\ 0 <= index.n /\ index.n < Len(obj.l)

(* C1: run never lets an error propagate: every invocation ends with a     *)
(* `result` item that is a boolean or null, and no exception leaves run.   *)
C1_NoErrorPropagates ==
    Finished =>
        /\ exc = "none"
        /\ Len(emitted) >= 1
        /\ emitted[1][1] = "result"
        /\ emitted[1][2].t \in {"bool", "null"}

(* C2: on a successful comparison the output is input_object under         *)
(* passthrough; otherwise yes_value on true and no_value on false when     *)
(* that override is not null (falsy overrides included), else value1.      *)
C2_Expected ==
    IF input_data.passthrough THEN input_data.input_object
    ELSE LET override == IF emitted[1][2].b THEN input_data.yes_value
                         ELSE input_data.no_value
         IN  IF override = None THEN value1 ELSE override

C3_Undefined ==
    \/ comparison_funcs(input_data.operator, value1, value2).raised
    \/ /\ input_data.operator \in OrderingOperator
       /\ {value1.t, value2.t} \in {{"str", "null"}, {"num", "str"}}

C3_FailureYieldsNull ==
    (Resolved /\ C3_Undefined) =>
        /\ \A i \in 1..Len(emitted) : emitted[i][2] = None
        /\ Finished => emitted = << <<"result", None>>, <<"output", None>> >>

C3_Witness ==
    /\ Finished
    /\ input_data.input_object = PyDict(A :> PyStr(A))
    /\ input_data.operator = GREATER_THAN
    /\ input_data.passthrough
    /\ value1 = PyStr(A)
    /\ value2 = None
    /\ emitted = << <<"result", None>>, <<"output", None>> >>

(* C4: every invocation emits exactly two items, `result` then `output`;   *)
(* never `output` first, never a channel twice, never fewer than two.      *)
C4_ResultThenOutput ==
    /\ Len(emitted) <= 2
    /\ Len(emitted) >= 1 => emitted[1][1] = "result"
    /\ Len(emitted) >= 2 => emitted[2][1] = "output"
    /\ Finished => Len(emitted) = 2

(* C5: without passthrough, when the comparison succeeds and the override  *)
(* of the obtained outcome is null, the output is input_object.            *)
C5_DefaultIsInputObject ==
    (/\ Succeeded
     /\ ~input_data.passthrough
     /\ (IF emitted[1][2].b THEN input_data.yes_value ELSE input_data.no_value) = None)
        => emitted[2][2] = input_data.input_object

(* C6: for a sequence and an index i, the operand is the i-th element when *)
(* 0 <= i < length, and the null marker when i is out of range and no key  *)
(* is given.                                                               *)
C6_Operand(key, index, value) ==
    index # None =>
        /\ InRange(index, input_data.input_object)
              => value = input_data.input_object.l[index.n + 1]
        /\ (~InRange(index, input_data.input_object) /\ key = None)
              => value = None

C6_IndexOperand ==
    (Resolved /\ isinstance(input_data.input_object, "list")) =>
        /\ C6_Operand(input_data.value1_key, input_data.value1_index, value1)
        /\ C6_Operand(input_data.value2_key, input_data.value2_index, value2)

(* C7: with neither key nor index the operand is the whole input_object,   *)
(* for every input shape; so with both addresses empty and EQUAL, without  *)
(* overrides or passthrough, the result is true and the output is          *)
(* input_object.                                                           *)
C7_NoAddress(key, index) == key = None /\ index = None

C7_WholeInputOperand ==
    /\ (Resolved /\ C7_NoAddress(input_data.value1_key, input_data.value1_index))
          => value1 = input_data.input_object
    /\ (Resolved /\ C7_NoAddress(input_data.value2_key, input_data.value2_index))
          => value2 = input_data.input_object
    /\ (/\ Finished
        /\ C7_NoAddress(input_data.value1_key, input_data.value1_index)
        /\ C7_NoAddress(input_data.value2_key, input_data.value2_index)
        /\ input_data.operator = EQUAL
        /\ input_data.yes_value = None
        /\ input_data.no_value = None
        /\ ~input_data.passthrough)
          => emitted = << <<"result", PyBool(TRUE)>>,
                          <<"output", input_data.input_object>> >>

(* C8: for a mapping and a key k, the operand is the value stored under k, *)
(* or the null marker when k is missing; no error is raised and an index   *)
(* given alongside changes nothing.                                        *)
C8_Stored(key) ==
    IF key.s \in DOMAIN input_data.input_object.d
    THEN input_data.input_object.d[key.s]
    ELSE None

C8_MappingKeyLookup ==
    isinstance(input_data.input_object, "dict") =>
        /\ exc = "none"
        /\ (pc # "start" /\ input_data.value1_key # None)
              => value1 = C8_Stored(input_data.value1_key)
        /\ (pc # "start" /\ input_data.value2_key # None)
              => value2 = C8_Stored(input_data.value2_key)

C8_Witness ==
    /\ Finished
    /\ input_data.input_object = PyDict(A :> PyInt(1))
    /\ input_data.value1_key = PyStr(A)
    /\ input_data.value1_index = PyInt(0)
    /\ input_data.value2_key = PyStr(B)
    /\ value1 = PyInt(1)
    /\ value2 = None

(* C9: for a sequence of any length and a key, an index in range wins and  *)
(* the element itself is the operand; otherwise the operand is             *)
(* firstElement[key] when the first element is a mapping (null when the    *)
(* key is missing from it) and the null marker when it is not.             *)
C9_Operand(key, index, value) ==
    key # None =>
        /\ exc = "none"
        /\ value = IF InRange(index, input_data.input_object)
                   THEN input_data.input_object.l[index.n + 1]
                   ELSE IF Len(input_data.input_object.l) > 0
                           /\ isinstance(input_data.input_object.l[1], "dict")
                           /\ key.s \in DOMAIN input_data.input_object.l[1].d
                        THEN input_data.input_object.l[1].d[key.s]
                        ELSE None

C9_KeyOnSequence ==
    (pc # "start" /\ isinstance(input_data.input_object, "list")) =>
        /\ C9_Operand(input_data.value1_key, input_data.value1_index, value1)
        /\ C9_Operand(input_data.value2_key, input_data.value2_index, value2)

(* C10 as stated: an ordering operator succeeds only when both operands    *)
(* are numbers or both are strings, and fails for every other pair of      *)
(* shapes; EQUAL and NOT_EQUAL never fail.                                 *)
C10_NumbersOrStrings ==
    \/ value1.t = "num" /\ value2.t = "num"
    \/ value1.t = "str" /\ value2.t = "str"

C10_OrderingOnlyNumbersOrStrings ==
    (Finished /\ exc = "none") =>
        IF input_data.operator \in OrderingOperator
        THEN emitted[1][2].t = "bool" <=> C10_NumbersOrStrings
        ELSE emitted[1][2].t = "bool"

(* C10 amended: an ordering operator succeeds exactly when both operands   *)
(* are numbers or booleans (a boolean ordering as 0 or 1), both are        *)
(* strings, or both are sequences that agree up to the shorter length or   *)
(* whose first unequal pair of elements is itself ordered; every other     *)
(* pair takes the failure path. EQUAL and NOT_EQUAL never fail.            *)
RECURSIVE C10_Ordered(_, _)
C10_Ordered(a, b) ==
    \/ a.t \in {"num", "bool"} /\ b.t \in {"num", "bool"}
    \/ a.t = "str" /\ b.t = "str"
    \/ /\ a.t = "list"
       /\ b.t = "list"
       /\ \A i \in 1..Min({Len(a.l), Len(b.l)}) :
             \/ \E j \in 1..(i - 1) : ~PyEq(a.l[j], b.l[j])
             \/ PyEq(a.l[i], b.l[i])
             \/ C10_Ordered(a.l[i], b.l[i])

C10_OrderingDefined ==
    (Finished /\ exc = "none") =>
        IF input_data.operator \in OrderingOperator
        THEN /\ emitted[1][2].t = "bool" <=> C10_Ordered(value1, value2)
             /\ emitted[1][2].t \in {"bool", "null"}
        ELSE emitted[1][2].t = "bool"

C10_Witness ==
    /\ Finished
    /\ input_data.operator = GREATER_THAN
    /\ value1 = PyBool(TRUE)
    /\ value2 = PyBool(FALSE)
    /\ emitted[1] = <<"result", PyBool(TRUE)>>

====
